---- MODULE Spec2Model ----
(***************************************************************************)
(* Model of dependency_visualizer.py: the DependencyVisualizer object, the *)
(* recursive graph builder (_bfs_with_recursion), the version normalizer   *)
(* (_extract_version), the registry client (fetch_dependencies), the load  *)
(* order traversal (_calculate_load_order) and main's sequence of calls.   *)
(*                                                                         *)
(* Python strings are sequences of one-character strings, so that          *)
(* replace / split / lower / "in" / f-string formatting are computed.      *)
(***************************************************************************)
EXTENDS Integers, Sequences, FiniteSets, TLC

\* ------------------------------------------------------------------ bounds
\* largest max_depth value written in a configuration file
MaxDepthCfg == 3
\* longest raw requirement string fed to the normalizer on its own
MaxReqLen == 3

\* -------------------------------------------------------- program constants
\* expected_params['max_depth'] default
DefaultMaxDepth == 3

\* ----------------------------------------------------------- string helpers
Upper == <<"A","B","C","D","E","F","G","H","I","J","K","L","M",
           "N","O","P","Q","R","S","T","U","V","W","X","Y","Z">>
Lower == <<"a","b","c","d","e","f","g","h","i","j","k","l","m",
           "n","o","p","q","r","s","t","u","v","w","x","y","z">>

\* str.lower() on one character
LowerChar(c) ==
    IF \E i \in 1..Len(Upper) : Upper[i] = c
    THEN Lower[CHOOSE i \in 1..Len(Upper) : Upper[i] = c]
    ELSE c

\* str.lower()
ToLower(s) == [i \in 1..Len(s) |-> LowerChar(s[i])]

\* Python's  sub in s
Contains(sub, s) ==
    \E i \in 0..(Len(s) - Len(sub)) : SubSeq(s, i + 1, i + Len(sub)) = sub

\* str.replace(c, '') : every occurrence of the character c is removed
Remove(s, c) == SelectSeq(s, LAMBDA x : x # c)

\* str.split(',')[0] : the part before the first comma, the whole string when
\* it has none
BeforeComma(s) ==
    IF \E i \in 1..Len(s) : s[i] = ","
    THEN SubSeq(s, 1, (CHOOSE i \in 1..Len(s) :
                          s[i] = "," /\ \A j \in 1..(i - 1) : s[j] # ",") - 1)
    ELSE s

HasComma(s) == \E i \in 1..Len(s) : s[i] = ","

\* mutant: replace(c, '', 1) in place of replace(c, ''): only the first
\* occurrence of each operator character is removed
CleanVersionFirstOnly(version_req) ==
    LET RemoveFirst(s, c) ==
            IF \E i \in 1..Len(s) : s[i] = c
            THEN LET k == CHOOSE i \in 1..Len(s) :
                              s[i] = c /\ \A j \in 1..(i - 1) : s[j] # c
                 IN  SubSeq(s, 1, k - 1) \o SubSeq(s, k + 1, Len(s))
            ELSE s
    IN  RemoveFirst(RemoveFirst(RemoveFirst(version_req, "^"), "~"), "=")

\* clean_version of _extract_version
CleanVersion(version_req) == Remove(Remove(Remove(version_req, "^"), "~"), "=")

\* mutant: the compound requirement is not cut at its first comma
ExtractVersionNoSplit(version_req) == CleanVersion(version_req)

\* _extract_version(version_req)
ExtractVersion(version_req) ==
    LET clean_version == CleanVersion(version_req)
    IN  IF HasComma(clean_version) THEN BeforeComma(clean_version)
        ELSE clean_version

\* f"{package}@{version}"
NodeKey(package, version) == package \o <<"@">> \o version

Reverse(s) == [i \in 1..Len(s) |-> s[Len(s) + 1 - i]]

Digits == <<"0","1","2","3","4","5","6","7","8","9">>

\* str(n) for a natural number
RECURSIVE NatToStr(_)
NatToStr(n) ==
    IF n < 10 THEN <<Digits[n + 1]>>
    ELSE NatToStr(n \div 10) \o <<Digits[(n % 10) + 1]>>

IntToStr(n) == IF n < 0 THEN <<"-">> \o NatToStr(0 - n) ELSE NatToStr(n)

IsDigit(c) == \E i \in 1..10 : Digits[i] = c
DigitVal(c) == (CHOOSE i \in 1..10 : Digits[i] = c) - 1

RECURSIVE DigitsVal(_)
DigitsVal(s) ==
    IF s = <<>> THEN 0
    ELSE DigitsVal(SubSeq(s, 1, Len(s) - 1)) * 10 + DigitVal(s[Len(s)])

\* int(s): an optional sign followed by one or more decimal digits;
\* anything else raises ValueError
IntParses(s) ==
    LET body == IF s # <<>> /\ Head(s) \in {"-", "+"} THEN Tail(s) ELSE s
    IN  body # <<>> /\ \A i \in 1..Len(body) : IsDigit(body[i])

ParseInt(s) ==
    IF Head(s) = "-" THEN 0 - DigitsVal(Tail(s))
    ELSE IF Head(s) = "+" THEN DigitsVal(Tail(s))
    ELSE DigitsVal(s)

\* ------------------------------------------------------- names and versions
root  == <<"r","o","o","t">>
left  == <<"l","e","f","t">>
right == <<"r","i","g","h","t">>
app   == <<"a","p","p">>
Bar   == <<"B","a","r">>
foo   == <<"f","o","o">>
baz   == <<"b","a","z">>
pA    == <<"A">>
pB    == <<"B">>
pC    == <<"C">>
pD    == <<"D">>
chn   == <<"c">>
bad   == <<"b","a","d">>
n1    == <<"n","1">>
n2    == <<"n","2">>
n3    == <<"n","3">>
n4    == <<"n","4">>
n5    == <<"n","5">>

v1    == <<"1">>
v10   == <<"1",".","0">>
v20   == <<"2",".","0">>
gt10  == <<">","1",".","0">>

\* one object of the registry's "dependencies" array
Dep(name, req) == [crate_id |-> name, req |-> req]
DepKind(name, req, kind) == [crate_id |-> name, req |-> req, kind |-> kind]

\* what the registry answers: a JSON object with a dependencies array, or a
\* failure of the request
Ok(deps) == [kind |-> "ok", dependencies |-> deps]
Fail(k)  == [kind |-> k]

\* the request raised requests.exceptions.RequestException (connection error,
\* timeout, raise_for_status on an HTTP error status) or the body is not JSON
FailureKinds == {"network", "timeout", "http", "badjson"}

\* the chain registry is endless: c@n depends on c@(n+1) for every n; the
\* model follows it up to ChainCap
ChainCap == (IF MaxDepthCfg > DefaultMaxDepth THEN MaxDepthCfg ELSE DefaultMaxDepth) + 2

Registries == {"e2e", "cycle", "filter", "chain", "diamond", "faults",
               "alldown", "compound", "schema_id", "schema_req", "schema_obj",
               "shortcut"}

\* the registry's answer to GET /crates/{package}/{version}/dependencies
Response(r, package, version) ==
    LET n == <<package, version>> IN
    CASE r = "e2e" ->
           (CASE n = <<root, v10>>  -> Ok(<<DepKind(left, v10, "normal"),
                                           DepKind(right, <<"^">> \o v20, "normal")>>)
              [] n = <<left, v10>>  -> Ok(<<>>)
              [] n = <<right, v20>> -> Ok(<<>>)
              [] OTHER -> Fail("http"))
      [] r = "cycle" ->
           (CASE n = <<pA, v1>> -> Ok(<<Dep(pB, v1)>>)
              [] n = <<pB, v1>> -> Ok(<<Dep(pA, v1)>>)
              [] OTHER -> Fail("http"))
      [] r = "filter" ->
           (CASE n = <<app, v10>> -> Ok(<<Dep(Bar, <<"^">> \o v10), Dep(foo, v10)>>)
              [] n = <<Bar, v10>> -> Ok(<<Dep(baz, v10)>>)
              [] n = <<foo, v10>> -> Ok(<<Dep(Bar, <<"=">> \o v10), DepKind(baz, v10, "dev")>>)
              [] n = <<baz, v10>> -> Ok(<<>>)
              [] OTHER -> Fail("http"))
      [] r = "chain" ->
           IF package = chn /\ IntParses(version) /\ Head(version) \notin {"-", "+"}
           THEN Ok(<<Dep(chn, NatToStr(ParseInt(version) + 1))>>)
           ELSE Fail("http")
      [] r = "diamond" ->
           (CASE n = <<root, v1>> -> Ok(<<Dep(pB, v1), Dep(pC, v1)>>)
              [] n = <<pB, v1>>   -> Ok(<<Dep(pD, v1)>>)
              [] n = <<pC, v1>>   -> Ok(<<Dep(pD, v1)>>)
              [] n = <<pD, v1>>   -> Ok(<<>>)
              [] OTHER -> Fail("http"))
      [] r = "faults" ->
           (CASE n = <<root, v10>> -> Ok(<<Dep(n1, v10), Dep(n2, v10), Dep(n3, v10),
                                          Dep(n4, v10), Dep(n5, v10), Dep(left, v10)>>)
              [] n = <<n1, v10>>   -> Fail("network")
              [] n = <<n2, v10>>   -> Fail("timeout")
              [] n = <<n3, v10>>   -> Fail("http")
              [] n = <<n4, v10>>   -> Fail("badjson")
              [] n = <<n5, v10>>   -> [kind |-> "ok"]
              [] n = <<left, v10>> -> Ok(<<Dep(n1, v10)>>)
              [] OTHER -> Fail("http"))
      [] r = "alldown" -> Fail("network")
      [] r = "shortcut" ->
           (CASE n = <<root, v1>> -> Ok(<<Dep(pB, v1), Dep(pC, v1)>>)
              [] n = <<pB, v1>>   -> Ok(<<Dep(pC, v1)>>)
              [] n = <<pC, v1>>   -> Ok(<<Dep(pD, v1)>>)
              [] n = <<pD, v1>>   -> Ok(<<Dep(left, v1)>>)
              [] n = <<left, v1>> -> Ok(<<>>)
              [] OTHER -> Fail("http"))
      [] r = "compound" ->
           (CASE n = <<root, v10>>  -> Ok(<<Dep(left, <<">","=">> \o v10 \o <<",","<">> \o v20),
                                           Dep(right, <<"~">> \o v20),
                                           Dep(left, <<">","=">> \o v10 \o <<",","<">> \o v20)>>)
              [] n = <<left, gt10>> -> Ok(<<Dep(right, <<"=">> \o v20)>>)
              [] n = <<right, v20>> -> Ok(<<>>)
              [] OTHER -> Fail("http"))
      [] r \in {"schema_id", "schema_req", "schema_obj"} ->
           (CASE n = <<root, v10>>  -> Ok(<<Dep(left, v10), Dep(right, v10)>>)
              [] n = <<left, v10>>  -> Ok(<<>>)
              [] n = <<right, v10>> -> Ok(<<Dep(bad, v10)>>)
              [] n = <<bad, v10>>   ->
                   (CASE r = "schema_id"  -> Ok(<<Dep(left, v10), [req |-> v10]>>)
                      [] r = "schema_req" -> Ok(<<[crate_id |-> left]>>)
                      [] OTHER            -> [kind |-> "notobject"])
              [] OTHER -> Fail("http"))

\* the root each registry is explored from
RootOf(r) ==
    CASE r \in {"cycle"}            -> <<pA, v1>>
      [] r = "filter"               -> <<app, v10>>
      [] r = "chain"                -> <<chn, <<"0">>>>
      [] r \in {"diamond", "shortcut"} -> <<root, v1>>
      [] OTHER                      -> <<root, v10>>

\* dep_info built from one object of the dependencies array
DepInfo(dep) ==
    [name    |-> dep.crate_id,
     version |-> dep.req,
     kind    |-> IF "kind" \in DOMAIN dep THEN dep.kind ELSE "normal"]

\* dep['crate_id'] or dep['req'] raises KeyError
DepRaises(dep) == "crate_id" \notin DOMAIN dep \/ "req" \notin DOMAIN dep

\* fetch_dependencies(package, version): the list it returns, or raised = TRUE
\* when an exception leaves it
FetchDependencies(r, package, version) ==
    LET resp == Response(r, package, version) IN
    IF resp.kind \in FailureKinds
    THEN [raised |-> FALSE, deps |-> <<>>]
    ELSE IF resp.kind = "notobject"
    THEN [raised |-> TRUE, deps |-> <<>>]
    ELSE IF "dependencies" \notin DOMAIN resp
    THEN [raised |-> FALSE, deps |-> <<>>]
    ELSE IF \E i \in 1..Len(resp.dependencies) : DepRaises(resp.dependencies[i])
    THEN [raised |-> TRUE, deps |-> <<>>]
    ELSE [raised |-> FALSE,
          deps |-> [i \in 1..Len(resp.dependencies) |-> DepInfo(resp.dependencies[i])]]

\* the model's bound on the endless chain: a fetch beyond it is not followed
WithinCap(r, version) ==
    r = "chain" /\ IntParses(version) => ParseInt(version) < ChainCap

\* -------------------------------------------------------------- the state
VARIABLES
    reg,          \* the registry behind fetch_dependencies
    cfg,          \* the configuration file as found on disk
    pc,           \* main's position
    params,       \* self.params
    graph,        \* self.graph
    visited,      \* self.visited
    cycles,       \* self.cycles
    stack,        \* call stack of _bfs_with_recursion, innermost call last
    built,        \* build_dependency_graph ran its traversal and returned
    builds,       \* how many times build_dependency_graph started its traversal
    first,        \* self.graph and self.cycles as the first build left them
    fetchLog,     \* every call of fetch_dependencies so far, in order
    filtered,     \* nodes _bfs_with_recursion left at its filter test, in order
    lo_visited,   \* visited of _calculate_load_order
    load_order,   \* load_order of _calculate_load_order
    lo_stack,     \* call stack of dfs, innermost call last
    result,       \* what _calculate_load_order returned, as a one-element list
    rendered,     \* outcome of _create_visualization
    nx, ny, nz    \* the normalizer on its own: input, output, output of output

vars == <<reg, cfg, pc, params, graph, visited, cycles, stack, built, builds, first, fetchLog,
          filtered, lo_visited, load_order, lo_stack, result, rendered,
          nx, ny, nz>>

buildVars == <<graph, visited, cycles, stack, built, builds, first, filtered>>
orderVars == <<lo_visited, load_order, lo_stack, result>>
normVars  == <<nx, ny, nz>>

\* an option of the file that is absent, or present with a value
None == <<>>
Some(v) == <<v>>

\* config.get('settings', param, fallback=default)
ConfigGet(opt, default) == IF opt = None THEN default ELSE opt[1]

\* the max_depth values a configuration file may carry
DepthStrings == {IntToStr(n) : n \in (0 - 1)..MaxDepthCfg} \cup {<<"a","b","c">>}

FilterStrings == {<<"b">>, <<"A">>}

Configs(r) ==
    [exists           : BOOLEAN,
     package_name     : {None, Some(RootOf(r)[1])},
     version          : {None, Some(RootOf(r)[2])},
     max_depth        : {None} \cup {Some(d) : d \in DepthStrings},
     filter_substring : {None} \cup {Some(f) : f \in FilterStrings},
     test_mode        : {None, Some(<<"T","r","u","e">>)}]

\* the state after DependencyVisualizer()
Init ==
    /\ reg \in Registries
    /\ cfg \in Configs(reg)
    /\ pc = "load_config"
    /\ params = <<>>
    /\ graph = <<>>
    /\ visited = {}
    /\ cycles = <<>>
    /\ stack = <<>>
    /\ built = FALSE
    /\ builds = 0
    /\ first = <<>>
    /\ fetchLog = <<>>
    /\ filtered = <<>>
    /\ lo_visited = {}
    /\ load_order = <<>>
    /\ lo_stack = <<>>
    /\ result = <<>>
    /\ rendered = "no"
    /\ nx = <<>> /\ ny = <<>> /\ nz = <<>>

\* self.params as load_config fills it, before the conversions
RawParams ==
    [package_name     |-> ConfigGet(cfg.package_name, <<>>),
     version          |-> ConfigGet(cfg.version, <<>>),
     max_depth        |-> ConfigGet(cfg.max_depth, IntToStr(DefaultMaxDepth)),
     filter_substring |-> ConfigGet(cfg.filter_substring, <<>>),
     test_mode        |-> ConfigGet(cfg.test_mode, <<"f","a","l","s","e">>)]

\* self.params['test_mode'].lower() == 'true'
TestModeOf(raw) == ToLower(raw.test_mode) = <<"t","r","u","e">>

\* load_config succeeds
ConfigValid ==
    /\ cfg.exists
    /\ IntParses(RawParams.max_depth)
    /\ RawParams.package_name # <<>>
    /\ RawParams.version # <<>>

\* load_config returns: the parameters are converted and stored
LoadConfigOk ==
    /\ pc = "load_config"
    /\ ConfigValid
    /\ params' = [RawParams EXCEPT !.test_mode = TestModeOf(RawParams),
                                   !.max_depth = ParseInt(RawParams.max_depth)]
    /\ pc' = "print_direct"
    /\ UNCHANGED <<reg, cfg, fetchLog, rendered>>
    /\ UNCHANGED <<buildVars, orderVars, normVars>>

\* load_config raises FileNotFoundError or ValueError, or calls sys.exit(1):
\* main ends the process with status 1
LoadConfigFails ==
    /\ pc = "load_config"
    /\ ~ConfigValid
    /\ params' = IF ~cfg.exists THEN params
                 ELSE IF ~IntParses(RawParams.max_depth)
                 THEN [RawParams EXCEPT !.test_mode = TestModeOf(RawParams)]
                 ELSE [RawParams EXCEPT !.test_mode = TestModeOf(RawParams),
                                        !.max_depth = ParseInt(RawParams.max_depth)]
    /\ pc' = "exit1"
    /\ UNCHANGED <<reg, cfg, fetchLog, rendered>>
    /\ UNCHANGED <<buildVars, orderVars, normVars>>

\* one record of fetchLog
Fetched(by, package, version, depth) ==
    [by |-> by, package |-> package, version |-> version, depth |-> depth]

\* print_direct_dependencies: one fetch of the root, then printing
PrintDirect ==
    /\ pc = "print_direct"
    /\ WithinCap(reg, params.version)
    /\ fetchLog' = Append(fetchLog, Fetched("direct", params.package_name, params.version, 0))
    /\ pc' = IF FetchDependencies(reg, params.package_name, params.version).raised
             THEN "exit1" ELSE "build"
    /\ UNCHANGED <<reg, cfg, params, rendered>>
    /\ UNCHANGED <<buildVars, orderVars, normVars>>

\* ------------------------------------------------------ the graph builder
\* one activation of _bfs_with_recursion (or of dfs): its arguments, where it
\* stands ("enter": at its first line, "loop": in its for loop), the list it
\* iterates over and the index of the next element
Frame(package, version, depth) ==
    [package |-> package, version |-> version, depth |-> depth,
     at |-> "enter", deps |-> <<>>, i |-> 1]

Top(stk) == stk[Len(stk)]
Pop(stk) == SubSeq(stk, 1, Len(stk) - 1)

\* mutant: an edge already listed under the key is not appended again
GraphAppendDedup(g, key, target) ==
    IF key \in DOMAIN g
    THEN (IF \E i \in 1..Len(g[key]) : g[key][i] = target THEN g
          ELSE [g EXCEPT ![key] = Append(@, target)])
    ELSE g @@ (key :> <<target>>)

\* self.graph[key].append(target) on a defaultdict(list)
GraphAppend(g, key, target) ==
    IF key \in DOMAIN g THEN [g EXCEPT ![key] = Append(@, target)]
    ELSE g @@ (key :> <<target>>)

\* mutant: >= in place of >
DepthExceededOffByOne(current_depth) == current_depth >= params.max_depth

\* mutant: < in place of >
DepthExceededInverted(current_depth) == current_depth < params.max_depth

\* current_depth > self.params['max_depth']
DepthExceeded(current_depth) == current_depth > params.max_depth

\* (package, version) in self.visited
AlreadyVisited(package, version) == <<package, version>> \in visited

\* mutant: the package name is not lowered before the test
FilterMatchesCaseSensitive(package) ==
    LET filter_sub == ToLower(params.filter_substring)
    IN  filter_sub # <<>> /\ Contains(filter_sub, package)

\* filter_sub and filter_sub in package.lower()
FilterMatches(package) ==
    LET filter_sub == ToLower(params.filter_substring)
    IN  filter_sub # <<>> /\ Contains(filter_sub, ToLower(package))

\* mutant: the recursive call passes current_depth unchanged
ChildDepthSame(current_depth) == current_depth

\* the depth the recursive call is made with
ChildDepth(current_depth) == current_depth + 1

\* build_dependency_graph in test mode: _test_mode_analysis prints, nothing
\* is traversed
BuildTestMode ==
    /\ pc = "build"
    /\ params.test_mode
    /\ pc' = "analyze"
    /\ UNCHANGED <<reg, cfg, params, fetchLog, rendered>>
    /\ UNCHANGED <<buildVars, orderVars, normVars>>

\* build_dependency_graph calls _bfs_with_recursion(package, version, 0)
BuildStart ==
    /\ pc = "build"
    /\ ~params.test_mode
    /\ stack' = <<Frame(params.package_name, params.version, 0)>>
    /\ builds' = builds + 1
    /\ pc' = "building"
    /\ UNCHANGED <<reg, cfg, params, fetchLog, rendered>>
    /\ UNCHANGED <<graph, visited, cycles, built, first, filtered>>
    /\ UNCHANGED <<orderVars, normVars>>

\* a call of _bfs_with_recursion stands at its first line
BfsEntering ==
    /\ pc = "building"
    /\ stack # <<>>
    /\ Top(stack).at = "enter"

\* if current_depth > max_depth: return
BfsDepthExceeded ==
    /\ BfsEntering
    /\ DepthExceeded(Top(stack).depth)
    /\ stack' = Pop(stack)
    /\ UNCHANGED <<reg, cfg, pc, params, fetchLog, rendered>>
    /\ UNCHANGED <<graph, visited, cycles, built, builds, first, filtered>>
    /\ UNCHANGED <<orderVars, normVars>>

\* if (package, version) in self.visited: self.cycles.append(...); return
BfsRevisit ==
    LET f == Top(stack) IN
    /\ BfsEntering
    /\ ~DepthExceeded(f.depth)
    /\ AlreadyVisited(f.package, f.version)
    /\ cycles' = Append(cycles, <<f.package, f.version>>)
    /\ stack' = Pop(stack)
    /\ UNCHANGED <<reg, cfg, pc, params, fetchLog, rendered>>
    /\ UNCHANGED <<graph, visited, built, builds, first, filtered>>
    /\ UNCHANGED <<orderVars, normVars>>

\* self.visited.add(...); the filter matches the package name: return
BfsFiltered ==
    LET f == Top(stack) IN
    /\ BfsEntering
    /\ ~DepthExceeded(f.depth)
    /\ ~AlreadyVisited(f.package, f.version)
    /\ FilterMatches(f.package)
    /\ visited' = visited \cup {<<f.package, f.version>>}
    /\ filtered' = Append(filtered, <<f.package, f.version>>)
    /\ stack' = Pop(stack)
    /\ UNCHANGED <<reg, cfg, pc, params, fetchLog, rendered>>
    /\ UNCHANGED <<graph, cycles, built, builds, first>>
    /\ UNCHANGED <<orderVars, normVars>>

\* the call passes the three tests and reaches fetch_dependencies
BfsReachesFetch ==
    LET f == Top(stack) IN
    /\ BfsEntering
    /\ ~DepthExceeded(f.depth)
    /\ ~AlreadyVisited(f.package, f.version)
    /\ ~FilterMatches(f.package)
    /\ WithinCap(reg, f.version)

\* mutant: self.visited.add(...) is missing
BfsFetchNoMark ==
    LET f == Top(stack)
        r == FetchDependencies(reg, f.package, f.version) IN
    /\ BfsReachesFetch
    /\ ~r.raised
    /\ fetchLog' = Append(fetchLog, Fetched("build", f.package, f.version, f.depth))
    /\ stack' = [stack EXCEPT ![Len(stack)] = [f EXCEPT !.at = "loop", !.deps = r.deps]]
    /\ UNCHANGED <<reg, cfg, pc, params, rendered>>
    /\ UNCHANGED <<graph, visited, cycles, built, builds, first, filtered>>
    /\ UNCHANGED <<orderVars, normVars>>

\* self.visited.add(...); dependencies = self.fetch_dependencies(...)
BfsFetch ==
    LET f == Top(stack)
        r == FetchDependencies(reg, f.package, f.version) IN
    /\ BfsReachesFetch
    /\ ~r.raised
    /\ visited' = visited \cup {<<f.package, f.version>>}
    /\ fetchLog' = Append(fetchLog, Fetched("build", f.package, f.version, f.depth))
    /\ stack' = [stack EXCEPT ![Len(stack)] = [f EXCEPT !.at = "loop", !.deps = r.deps]]
    /\ UNCHANGED <<reg, cfg, pc, params, rendered>>
    /\ UNCHANGED <<graph, cycles, built, builds, first, filtered>>
    /\ UNCHANGED <<orderVars, normVars>>

\* fetch_dependencies raises: the exception unwinds every call up to main,
\* which prints it and calls sys.exit(1)
BfsFetchRaises ==
    LET f == Top(stack)
        r == FetchDependencies(reg, f.package, f.version) IN
    /\ BfsReachesFetch
    /\ r.raised
    /\ visited' = visited \cup {<<f.package, f.version>>}
    /\ fetchLog' = Append(fetchLog, Fetched("build", f.package, f.version, f.depth))
    /\ stack' = <<>>
    /\ pc' = "exit1"
    /\ UNCHANGED <<reg, cfg, params, rendered>>
    /\ UNCHANGED <<graph, cycles, built, builds, first, filtered>>
    /\ UNCHANGED <<orderVars, normVars>>

\* one iteration of the for loop: normalize, append the edge, recurse
BfsEdge ==
    LET f == Top(stack)
        dep == f.deps[f.i]
        dep_name == dep.name
        dep_version == ExtractVersion(dep.version) IN
    /\ pc = "building"
    /\ stack # <<>>
    /\ f.at = "loop"
    /\ f.i <= Len(f.deps)
    /\ graph' = GraphAppend(graph, NodeKey(f.package, f.version),
                            NodeKey(dep_name, dep_version))
    /\ stack' = Append([stack EXCEPT ![Len(stack)] = [f EXCEPT !.i = f.i + 1]],
                       Frame(dep_name, dep_version, ChildDepth(f.depth)))
    /\ UNCHANGED <<reg, cfg, pc, params, fetchLog, rendered>>
    /\ UNCHANGED <<visited, cycles, built, builds, first, filtered>>
    /\ UNCHANGED <<orderVars, normVars>>

\* the for loop is exhausted: the call returns
BfsReturn ==
    LET f == Top(stack) IN
    /\ pc = "building"
    /\ stack # <<>>
    /\ f.at = "loop"
    /\ f.i > Len(f.deps)
    /\ stack' = Pop(stack)
    /\ UNCHANGED <<reg, cfg, pc, params, fetchLog, rendered>>
    /\ UNCHANGED <<graph, visited, cycles, built, builds, first, filtered>>
    /\ UNCHANGED <<orderVars, normVars>>

\* the outermost call returned: _print_graph, the cycles line, return
BuildFinish ==
    /\ pc = "building"
    /\ stack = <<>>
    /\ built' = TRUE
    /\ first' = IF builds = 1 THEN <<[graph |-> graph, cycles |-> cycles]>> ELSE first
    /\ pc' = "analyze"
    /\ UNCHANGED <<reg, cfg, params, fetchLog, rendered>>
    /\ UNCHANGED <<graph, visited, cycles, stack, builds, filtered>>
    /\ UNCHANGED <<orderVars, normVars>>

\* --------------------------------------------------- the load order traversal
\* analyze_dependencies in test mode returns at once
AnalyzeTestMode ==
    /\ pc = "analyze"
    /\ params.test_mode
    /\ pc' = "visualize"
    /\ UNCHANGED <<reg, cfg, params, fetchLog, rendered>>
    /\ UNCHANGED <<buildVars, orderVars, normVars>>

\* _calculate_load_order: fresh visited and load_order, dfs(package, version)
AnalyzeStart ==
    /\ pc = "analyze"
    /\ ~params.test_mode
    /\ lo_visited' = {}
    /\ load_order' = <<>>
    /\ lo_stack' = <<Frame(params.package_name, params.version, 0)>>
    /\ pc' = "analyzing"
    /\ UNCHANGED <<reg, cfg, params, fetchLog, rendered, result>>
    /\ UNCHANGED <<buildVars, normVars>>

DfsEntering ==
    /\ pc = "analyzing"
    /\ lo_stack # <<>>
    /\ Top(lo_stack).at = "enter"

\* mutant: dfs also consults the builder's self.visited
DfsSkipShared ==
    LET f == Top(lo_stack) IN
    /\ DfsEntering
    /\ \/ NodeKey(f.package, f.version) \in lo_visited
       \/ <<f.package, f.version>> \in visited
    /\ lo_stack' = Pop(lo_stack)
    /\ UNCHANGED <<reg, cfg, pc, params, fetchLog, rendered>>
    /\ UNCHANGED <<lo_visited, load_order, result>>
    /\ UNCHANGED <<buildVars, normVars>>

\* if node in visited: return
DfsSkip ==
    LET f == Top(lo_stack) IN
    /\ DfsEntering
    /\ NodeKey(f.package, f.version) \in lo_visited
    /\ lo_stack' = Pop(lo_stack)
    /\ UNCHANGED <<reg, cfg, pc, params, fetchLog, rendered>>
    /\ UNCHANGED <<lo_visited, load_order, result>>
    /\ UNCHANGED <<buildVars, normVars>>

\* mutant: dfs applies the builder's filter and does not expand a matching node
DfsFetchFiltered ==
    LET f == Top(lo_stack)
        r == FetchDependencies(reg, f.package, f.version) IN
    /\ DfsEntering
    /\ NodeKey(f.package, f.version) \notin lo_visited
    /\ WithinCap(reg, f.version)
    /\ ~r.raised
    /\ lo_visited' = lo_visited \cup {NodeKey(f.package, f.version)}
    /\ fetchLog' = Append(fetchLog, Fetched("order", f.package, f.version, f.depth))
    /\ lo_stack' = [lo_stack EXCEPT ![Len(lo_stack)] =
                        [f EXCEPT !.at = "loop",
                                  !.deps = IF FilterMatches(f.package) THEN <<>>
                                           ELSE r.deps]]
    /\ UNCHANGED <<reg, cfg, pc, params, rendered>>
    /\ UNCHANGED <<load_order, result>>
    /\ UNCHANGED <<buildVars, normVars>>

\* mutant: visited.add(node) is missing
DfsFetchNoMark ==
    LET f == Top(lo_stack)
        r == FetchDependencies(reg, f.package, f.version) IN
    /\ DfsEntering
    /\ NodeKey(f.package, f.version) \notin lo_visited
    /\ WithinCap(reg, f.version)
    /\ ~r.raised
    /\ fetchLog' = Append(fetchLog, Fetched("order", f.package, f.version, f.depth))
    /\ lo_stack' = [lo_stack EXCEPT ![Len(lo_stack)] =
                        [f EXCEPT !.at = "loop", !.deps = r.deps]]
    /\ UNCHANGED <<reg, cfg, pc, params, rendered>>
    /\ UNCHANGED <<lo_visited, load_order, result>>
    /\ UNCHANGED <<buildVars, normVars>>

\* visited.add(node); dependencies = self.fetch_dependencies(...)
DfsFetch ==
    LET f == Top(lo_stack)
        r == FetchDependencies(reg, f.package, f.version) IN
    /\ DfsEntering
    /\ NodeKey(f.package, f.version) \notin lo_visited
    /\ WithinCap(reg, f.version)
    /\ ~r.raised
    /\ lo_visited' = lo_visited \cup {NodeKey(f.package, f.version)}
    /\ fetchLog' = Append(fetchLog, Fetched("order", f.package, f.version, f.depth))
    /\ lo_stack' = [lo_stack EXCEPT ![Len(lo_stack)] =
                        [f EXCEPT !.at = "loop", !.deps = r.deps]]
    /\ UNCHANGED <<reg, cfg, pc, params, rendered>>
    /\ UNCHANGED <<load_order, result>>
    /\ UNCHANGED <<buildVars, normVars>>

\* fetch_dependencies raises inside dfs: main prints and calls sys.exit(1)
DfsFetchRaises ==
    LET f == Top(lo_stack)
        r == FetchDependencies(reg, f.package, f.version) IN
    /\ DfsEntering
    /\ NodeKey(f.package, f.version) \notin lo_visited
    /\ WithinCap(reg, f.version)
    /\ r.raised
    /\ lo_visited' = lo_visited \cup {NodeKey(f.package, f.version)}
    /\ fetchLog' = Append(fetchLog, Fetched("order", f.package, f.version, f.depth))
    /\ lo_stack' = <<>>
    /\ pc' = "exit1"
    /\ UNCHANGED <<reg, cfg, params, rendered>>
    /\ UNCHANGED <<load_order, result>>
    /\ UNCHANGED <<buildVars, normVars>>

\* one iteration of dfs's for loop: normalize and recurse
DfsChild ==
    LET f == Top(lo_stack)
        dep == f.deps[f.i]
        dep_name == dep.name
        dep_version == ExtractVersion(dep.version) IN
    /\ pc = "analyzing"
    /\ lo_stack # <<>>
    /\ f.at = "loop"
    /\ f.i <= Len(f.deps)
    /\ lo_stack' = Append([lo_stack EXCEPT ![Len(lo_stack)] = [f EXCEPT !.i = f.i + 1]],
                          Frame(dep_name, dep_version, f.depth + 1))
    /\ UNCHANGED <<reg, cfg, pc, params, fetchLog, rendered>>
    /\ UNCHANGED <<lo_visited, load_order, result>>
    /\ UNCHANGED <<buildVars, normVars>>

\* load_order.append(node) after the loop; the call returns
DfsReturn ==
    LET f == Top(lo_stack) IN
    /\ pc = "analyzing"
    /\ lo_stack # <<>>
    /\ f.at = "loop"
    /\ f.i > Len(f.deps)
    /\ load_order' = Append(load_order, NodeKey(f.package, f.version))
    /\ lo_stack' = Pop(lo_stack)
    /\ UNCHANGED <<reg, cfg, pc, params, fetchLog, rendered>>
    /\ UNCHANGED <<lo_visited, result>>
    /\ UNCHANGED <<buildVars, normVars>>

\* mutant: the list is returned as built, without [::-1]
ReturnedOrderAsBuilt(order) == order

\* what _calculate_load_order returns: load_order[::-1]
ReturnedOrder(order) == Reverse(order)

\* dfs returned: return load_order[::-1]; the two printing methods follow
AnalyzeFinish ==
    /\ pc = "analyzing"
    /\ lo_stack = <<>>
    /\ result' = <<ReturnedOrder(load_order)>>
    /\ pc' = "visualize"
    /\ UNCHANGED <<reg, cfg, params, fetchLog, rendered>>
    /\ UNCHANGED <<lo_visited, load_order, lo_stack>>
    /\ UNCHANGED <<buildVars, normVars>>

\* ------------------------------------------------------------ visualization
\* visualize_graph with an empty graph: "No graph data to visualize"
VisualizeEmpty ==
    /\ pc = "visualize"
    /\ DOMAIN graph = {}
    /\ rendered' = "nodata"
    /\ pc' = "done"
    /\ UNCHANGED <<reg, cfg, params, fetchLog>>
    /\ UNCHANGED <<buildVars, orderVars, normVars>>

\* visualize_graph: the text is printed; _create_visualization saves the
\* picture or catches the rendering error
VisualizeGraph ==
    /\ pc = "visualize"
    /\ DOMAIN graph # {}
    /\ rendered' \in {"saved", "error"}
    /\ pc' = "done"
    /\ UNCHANGED <<reg, cfg, params, fetchLog>>
    /\ UNCHANGED <<buildVars, orderVars, normVars>>

Next ==
    \/ LoadConfigOk
    \/ LoadConfigFails
    \/ PrintDirect
    \/ BuildTestMode
    \/ BuildStart
    \/ BfsDepthExceeded
    \/ BfsRevisit
    \/ BfsFiltered
    \/ BfsFetch
    \/ BfsFetchRaises
    \/ BfsEdge
    \/ BfsReturn
    \/ BuildFinish
    \/ AnalyzeTestMode
    \/ AnalyzeStart
    \/ DfsSkip
    \/ DfsFetch
    \/ DfsFetchRaises
    \/ DfsChild
    \/ DfsReturn
    \/ AnalyzeFinish
    \/ VisualizeEmpty
    \/ VisualizeGraph

Spec == Init /\ [][Next]_vars

\* the program takes its next step whenever it has one: a single thread that
\* is never suspended
FairSpec == Spec /\ WF_vars(Next)

\* ------------------------------------------- build called again by a caller
\* how many times the caller invokes build_dependency_graph on one object
MaxBuilds == 2

\* a caller that holds the visualizer calls build_dependency_graph once more
BuildAgain ==
    /\ pc = "analyze"
    /\ builds >= 1
    /\ builds < MaxBuilds
    /\ pc' = "build"
    /\ UNCHANGED <<reg, cfg, params, fetchLog, rendered>>
    /\ UNCHANGED <<buildVars, orderVars, normVars>>

RebuildNext ==
    \/ LoadConfigOk
    \/ LoadConfigFails
    \/ PrintDirect
    \/ BuildTestMode
    \/ BuildStart
    \/ BfsDepthExceeded
    \/ BfsRevisit
    \/ BfsFiltered
    \/ BfsFetch
    \/ BfsFetchRaises
    \/ BfsEdge
    \/ BfsReturn
    \/ BuildFinish
    \/ BuildAgain

\* load_config, print_direct_dependencies, then build_dependency_graph called
\* MaxBuilds times on the same object
RebuildSpec == Init /\ [][RebuildNext]_vars

\* ------------------------------------------------- the normalizer on its own
ReqAlphabet == {"^", "~", "=", ",", ">", "<", "1", "."}

BoundedReqs == UNION {[1..n -> ReqAlphabet] : n \in 0..MaxReqLen}

caret123 == <<"^","1",".","2",".","3">>
range12  == <<">","=","1",".","0",",","<","2",".","0">>

NormInputs == BoundedReqs \cup {caret123, range12}

NormInit ==
    /\ nx \in NormInputs
    /\ ny = <<>> /\ nz = <<>>
    /\ pc = "norm"
    /\ reg = "e2e"
    /\ cfg = [exists |-> FALSE, package_name |-> None, version |-> None,
              max_depth |-> None, filter_substring |-> None, test_mode |-> None]
    /\ params = <<>>
    /\ graph = <<>>
    /\ visited = {}
    /\ cycles = <<>>
    /\ stack = <<>>
    /\ built = FALSE
    /\ builds = 0
    /\ first = <<>>
    /\ fetchLog = <<>>
    /\ filtered = <<>>
    /\ lo_visited = {}
    /\ load_order = <<>>
    /\ lo_stack = <<>>
    /\ result = <<>>
    /\ rendered = "no"

\* _extract_version applied to the input
NormApply ==
    /\ pc = "norm"
    /\ ny' = ExtractVersion(nx)
    /\ pc' = "norm_again"
    /\ UNCHANGED <<reg, cfg, params, fetchLog, rendered, nx, nz>>
    /\ UNCHANGED <<buildVars, orderVars>>

\* _extract_version applied to its own output
NormAgain ==
    /\ pc = "norm_again"
    /\ nz' = ExtractVersion(ny)
    /\ pc' = "norm_done"
    /\ UNCHANGED <<reg, cfg, params, fetchLog, rendered, nx, ny>>
    /\ UNCHANGED <<buildVars, orderVars>>

NormNext == NormApply \/ NormAgain

NormSpec == NormInit /\ [][NormNext]_vars

\* ================================================================ properties
\* self.graph[key] as a defaultdict reads it: a missing key is an empty list
GraphAt(key) == IF key \in DOMAIN graph THEN graph[key] ELSE <<>>

HasEdge(src, dst) == \E i \in 1..Len(GraphAt(src)) : GraphAt(src)[i] = dst

IsPrefix(a, b) == Len(a) <= Len(b) /\ SubSeq(b, 1, Len(a)) = a

Elems(seq) == {seq[i] : i \in 1..Len(seq)}

\* positions of fetchLog written by the builder / by the load order traversal
BuildFetchIdx == {i \in 1..Len(fetchLog) : fetchLog[i].by = "build"}
OrderFetchIdx == {i \in 1..Len(fetchLog) : fetchLog[i].by = "order"}

\* the node keys a fetch of (package, version) lists, versions normalized
ListedKeys(package, version) ==
    LET d == FetchDependencies(reg, package, version).deps
    IN  [i \in 1..Len(d) |-> NodeKey(d[i].name, ExtractVersion(d[i].version))]

RootKey == NodeKey(params.package_name, params.version)

PosIn(seq, x) == CHOOSE i \in 1..Len(seq) : seq[i] = x

\* registries whose dependency relation has no cycle
AcyclicRegistries == Registries \ {"cycle"}

\* ---------------------------------------------------------------------- C1
\* C1: on an acyclic fetcher the returned load order places c before p for
\* every edge p -> c the load order traversal discovered, and the root is the
\* last element of the returned sequence.
C1_DependenciesFirst ==
    (result # <<>> /\ reg \in AcyclicRegistries) =>
        LET ord == result[1] IN
        /\ ord[Len(ord)] = RootKey
        /\ \A i \in OrderFetchIdx :
             LET p == NodeKey(fetchLog[i].package, fetchLog[i].version)
                 cs == ListedKeys(fetchLog[i].package, fetchLog[i].version)
             IN  \A j \in 1..Len(cs) : PosIn(ord, cs[j]) < PosIn(ord, p)

\* ---------------------------------------------------------------------- C2
e2eRootKey  == NodeKey(root, v10)
e2eLeftKey  == NodeKey(left, v10)
e2eRightKey == NodeKey(right, v20)

\* C2: after build completes every node the builder fetched is a key of the
\* Graph (with an empty sequence when it has no dependencies); for the
\* root/left/right fetcher and max_depth = 2 the Graph has exactly the three
\* keys root@1.0 -> [left@1.0, right@2.0], left@1.0 -> [], right@2.0 -> []
\* and CycleList is empty.
C2_SourcesAreKeys ==
    built =>
        /\ \A i \in BuildFetchIdx :
             NodeKey(fetchLog[i].package, fetchLog[i].version) \in DOMAIN graph
        /\ (reg = "e2e" /\ params.max_depth = 2) =>
             /\ DOMAIN graph = {e2eRootKey, e2eLeftKey, e2eRightKey}
             /\ graph[e2eRootKey] = <<e2eLeftKey, e2eRightKey>>
             /\ graph[e2eLeftKey] = <<>>
             /\ graph[e2eRightKey] = <<>>
             /\ cycles = <<>>

\* ---------------------------------------------------------------------- C3
keyA1 == NodeKey(pA, v1)
keyB1 == NodeKey(pB, v1)

CycleBuildDone ==
    /\ built
    /\ reg = "cycle"
    /\ params.filter_substring = <<>>
    /\ params.max_depth >= 0

\* C3 as stated: for every max_depth >= 0, building A@1 <-> B@1 from A@1 with
\* an empty filter ends with A@1 in CycleList and both edges in the Graph.
C3_CycleAtAnyDepth ==
    CycleBuildDone =>
        /\ <<pA, v1>> \in Elems(cycles)
        /\ HasEdge(keyA1, keyB1)
        /\ HasEdge(keyB1, keyA1)

\* C3 amended: A@1 is in CycleList and both edges are in the Graph when
\* max_depth >= 2; with max_depth = 1 both edges are recorded and CycleList is
\* empty; with max_depth = 0 only A@1 -> B@1 is recorded and CycleList is
\* empty.
C3_CycleFromDepthTwo ==
    CycleBuildDone =>
        /\ params.max_depth >= 2 =>
             /\ cycles = << <<pA, v1>> >>
             /\ HasEdge(keyA1, keyB1) /\ HasEdge(keyB1, keyA1)
        /\ params.max_depth = 1 =>
             /\ cycles = <<>>
             /\ HasEdge(keyA1, keyB1) /\ HasEdge(keyB1, keyA1)
        /\ params.max_depth = 0 =>
             /\ cycles = <<>>
             /\ HasEdge(keyA1, keyB1) /\ ~HasEdge(keyB1, keyA1)

C3_Witness ==
    /\ CycleBuildDone
    /\ params.max_depth >= 2
    /\ cycles = << <<pA, v1>> >>
    /\ graph[keyB1] = <<keyA1>>

\* ---------------------------------------------------------------------- C4
\* every fetch of the builder was made by a call at depth <= max_depth
FetchedWithinDepth ==
    \A i \in BuildFetchIdx : fetchLog[i].depth <= params.max_depth

\* a call entered at depth > max_depth
DeepCallEntered ==
    /\ pc = "building"
    /\ stack # <<>>
    /\ Top(stack).at = "enter"
    /\ Top(stack).depth > params.max_depth

\* such a call returns and leaves the builder's data alone
DeepCallIsSilent ==
    DeepCallEntered =>
        /\ stack' = Pop(stack)
        /\ UNCHANGED <<graph, visited, cycles, fetchLog>>

\* C4 as stated: nodes are fetched only at depth <= max_depth, a call deeper
\* than max_depth returns without fetching, marking or recording a cycle, and
\* for max_depth = 0 the builder issues exactly one fetch (the root) and the
\* final Graph holds exactly the root's direct dependency edges.
C4_DepthBoundOneFetch ==
    /\ [](FetchedWithinDepth)
    /\ [][DeepCallIsSilent]_vars
    /\ []((built /\ params.max_depth = 0) =>
            /\ Cardinality(BuildFetchIdx) = 1
            /\ DOMAIN graph \subseteq {RootKey}
            /\ GraphAt(RootKey) = ListedKeys(params.package_name, params.version))

\* C4 amended: the same, except that for max_depth = 0 the builder issues at
\* most one fetch, of the root, and exactly one unless the root's package name
\* matches a non-empty filter_substring; the final Graph has no key but the
\* root's, holds exactly the root's direct dependency edges when the root was
\* fetched and is empty when the root was filtered.
C4_DepthBoundAtMostOneFetch ==
    /\ [](FetchedWithinDepth)
    /\ [][DeepCallIsSilent]_vars
    /\ []((built /\ params.max_depth = 0) =>
            LET rootFiltered ==
                    /\ params.filter_substring # <<>>
                    /\ Contains(ToLower(params.filter_substring),
                                ToLower(params.package_name))
            IN
            /\ \A i \in BuildFetchIdx :
                 /\ fetchLog[i].package = params.package_name
                 /\ fetchLog[i].version = params.version
            /\ Cardinality(BuildFetchIdx) = (IF rootFiltered THEN 0 ELSE 1)
            /\ DOMAIN graph \subseteq {RootKey}
            /\ GraphAt(RootKey) =
                 (IF rootFiltered THEN <<>>
                  ELSE ListedKeys(params.package_name, params.version)))

C4_Witness ==
    /\ built
    /\ reg = "e2e"
    /\ params.max_depth = 0
    /\ Cardinality(BuildFetchIdx) = 1
    /\ graph[e2eRootKey] = <<e2eLeftKey, e2eRightKey>>
    /\ visited = {<<root, v10>>}

\* ---------------------------------------------------------------------- C5
\* the package name contains the configured filter, compared without case
NameHasFilter(package) ==
    Contains(ToLower(params.filter_substring), ToLower(package))

\* C5: with a non-empty filter_substring a node whose package name contains it
\* case-insensitively is never fetched by the builder and never is a key of
\* the Graph, every edge a fetched parent lists into such a node is recorded
\* once build is complete, and with an empty filter_substring no node is
\* filtered.
C5_FilteredNotExpanded ==
    /\ \A i \in BuildFetchIdx :
         params.filter_substring # <<>> => ~NameHasFilter(fetchLog[i].package)
    /\ \A n \in visited :
         (params.filter_substring # <<>> /\ NameHasFilter(n[1]))
            => NodeKey(n[1], n[2]) \notin DOMAIN graph
    /\ built =>
         \A i \in BuildFetchIdx :
            LET d == FetchDependencies(reg, fetchLog[i].package, fetchLog[i].version).deps
            IN  \A j \in 1..Len(d) :
                  (params.filter_substring # <<>> /\ NameHasFilter(d[j].name))
                     => HasEdge(NodeKey(fetchLog[i].package, fetchLog[i].version),
                                NodeKey(d[j].name, ExtractVersion(d[j].version)))
    /\ filtered # <<>> => params.filter_substring # <<>>

C5_Witness ==
    /\ built
    /\ reg = "filter"
    /\ params.filter_substring = <<"b">>
    /\ params.max_depth >= 2
    /\ <<Bar, v10>> \in Elems(filtered)
    /\ HasEdge(NodeKey(app, v10), NodeKey(Bar, v10))
    /\ HasEdge(NodeKey(foo, v10), NodeKey(Bar, v10))
    /\ NodeKey(Bar, v10) \notin DOMAIN graph

\* ---------------------------------------------------------------------- C6
\* C6: build terminates, whatever max_depth and the fetcher are: once
\* build_dependency_graph is called it returns or the process ends.
C6_BuildTerminates == (pc = "build") ~> (pc \in {"analyze", "exit1"})

\* build returned on the endless chain, cut by the depth bound
C6_Witness ==
    /\ built
    /\ reg = "chain"
    /\ params.max_depth = MaxDepthCfg
    /\ Cardinality(BuildFetchIdx) = MaxDepthCfg + 1

\* ---------------------------------------------------------------------- C7
\* C7: fetch never raises to its caller: whatever the response, the call
\* returns a list and the process goes on, so a process that has fetched
\* never ends with status 1.
C7_FetchNeverRaises ==
    /\ \A i \in 1..Len(fetchLog) :
         ~FetchDependencies(reg, fetchLog[i].package, fetchLog[i].version).raised
    /\ pc = "exit1" => fetchLog = <<>>

\* ---------------------------------------------------------------------- C8
NormApplied == pc \in {"norm_again", "norm_done"}

\* C8 as stated: the normalizer returns "1.2.3" for "^1.2.3" and ">=1.0" for
\* ">=1.0,<2.0".
C8_Examples ==
    NormApplied =>
        /\ nx = caret123 => ny = <<"1",".","2",".","3">>
        /\ nx = range12  => ny = <<">","=","1",".","0">>

\* C8 amended: the normalizer returns "1.2.3" for "^1.2.3" and ">1.0" for
\* ">=1.0,<2.0" (the "=" of ">=" is stripped with every other "=").
C8_ExamplesAsComputed ==
    NormApplied =>
        /\ nx = caret123 => ny = <<"1",".","2",".","3">>
        /\ nx = range12  => ny = <<">","1",".","0">>

C8_Witness ==
    /\ NormApplied
    /\ nx = range12
    /\ ny = gt10

\* ---------------------------------------------------------------------- C9
\* C9: normalization is idempotent: normalizing the normalizer's output gives
\* that output again, for every input over the requirement alphabet.
C9_Idempotent == pc = "norm_done" => nz = ny

C9_Witness ==
    /\ pc = "norm_done"
    /\ nx = <<"~", "1", ",">>
    /\ ny = <<"1">>
    /\ nz = <<"1">>

\* --------------------------------------------------------------------- C10
\* the Graph only grows, and each list only at its end
GraphAppendOnly ==
    \A k \in DOMAIN graph : k \in DOMAIN graph' /\ IsPrefix(graph[k], graph'[k])

\* C10: for every node the builder fetched, the Graph sequence under its key
\* is a prefix of the fetched dependency list (in fetch order, versions
\* normalized) and is the whole list once build is complete; no node is
\* fetched twice in a build; no edge is ever removed or reordered.
C10_EdgeCompleteness ==
    /\ [](\A i \in BuildFetchIdx :
            LET k == NodeKey(fetchLog[i].package, fetchLog[i].version)
                l == ListedKeys(fetchLog[i].package, fetchLog[i].version)
            IN  /\ IsPrefix(GraphAt(k), l)
                /\ built => GraphAt(k) = l
                /\ \A j \in BuildFetchIdx :
                     (fetchLog[j].package = fetchLog[i].package
                        /\ fetchLog[j].version = fetchLog[i].version) => j = i)
    /\ [](\A k \in DOMAIN graph :
            \E i \in BuildFetchIdx :
                k = NodeKey(fetchLog[i].package, fetchLog[i].version))
    /\ [][GraphAppendOnly]_vars

C10_Witness ==
    /\ built
    /\ reg = "compound"
    /\ params.max_depth = 1
    /\ GraphAt(NodeKey(root, v10)) =
         <<NodeKey(left, gt10), NodeKey(right, v20), NodeKey(left, gt10)>>
    /\ GraphAt(NodeKey(left, gt10)) = <<NodeKey(right, v20)>>
    /\ cycles = << <<left, gt10>> >>

\* --------------------------------------------------------------------- C11
\* the (package, version) pairs the dependency lists of r lead to from seen
RECURSIVE ReachClosure(_, _)
ReachClosure(r, seen) ==
    LET ListedBy(n) ==
            LET d == FetchDependencies(r, n[1], n[2]).deps
            IN  {<<d[i].name, ExtractVersion(d[i].version)>> : i \in 1..Len(d)}
        more == UNION {ListedBy(n) : n \in seen}
    IN  IF more \subseteq seen THEN seen ELSE ReachClosure(r, seen \cup more)

\* the keys of the nodes reachable from the configured root
ReachableKeys ==
    {NodeKey(n[1], n[2]) :
        n \in ReachClosure(reg, {<<params.package_name, params.version>>})}

\* registries with finitely many nodes reachable from their root
FiniteRegistries == Registries \ {"chain"}

\* C11: on a registry with finitely many reachable nodes the returned load
\* order holds every node reachable from the root through normalized fetched
\* dependencies, each exactly once, whatever max_depth and filter_substring
\* are.
C11_OrderCoversReachable ==
    (reg \in FiniteRegistries /\ result # <<>>) =>
        LET ord == result[1] IN
        /\ Elems(ord) = ReachableKeys
        /\ Cardinality(Elems(ord)) = Len(ord)

\* the load order holds nodes the builder filtered and nodes beyond max_depth
C11_Witness ==
    /\ reg = "filter"
    /\ result # <<>>
    /\ params.filter_substring = <<"b">>
    /\ params.max_depth = 1
    /\ Elems(result[1]) = {NodeKey(app, v10), NodeKey(Bar, v10),
                           NodeKey(foo, v10), NodeKey(baz, v10)}
    /\ <<Bar, v10>> \in Elems(filtered)
    /\ <<baz, v10>> \notin visited
    /\ DOMAIN graph = {NodeKey(app, v10), NodeKey(foo, v10)}

\* --------------------------------------------------------------------- C12
\* _calculate_load_order as a function of the fetcher and the root alone: dfs
\* threads its visited set and its list through the calls
RECURSIVE DfsRef(_, _, _, _)
RECURSIVE DfsRefLoop(_, _, _, _)
DfsRef(r, st, package, version) ==
    LET node == NodeKey(package, version) IN
    IF node \in st.seen THEN st
    ELSE LET entered == [st EXCEPT !.seen = @ \cup {node}]
             after == DfsRefLoop(r, entered, FetchDependencies(r, package, version).deps, 1)
         IN  [after EXCEPT !.order = Append(@, node)]

DfsRefLoop(r, st, deps, i) ==
    IF i > Len(deps) THEN st
    ELSE DfsRefLoop(r, DfsRef(r, st, deps[i].name, ExtractVersion(deps[i].version)),
                    deps, i + 1)

LoadOrderRef(r, package, version) ==
    Reverse(DfsRef(r, [seen |-> {}, order |-> <<>>], package, version).order)

\* a step of analyze_dependencies leaves the builder's data alone
OrderLeavesBuildAlone ==
    pc \in {"analyze", "analyzing"} => UNCHANGED <<graph, visited, cycles>>

\* C12: computing the load order leaves the Graph, the builder's VisitedSet
\* and the CycleList unchanged, and the order returned is the one a traversal
\* started from empty state computes from the fetcher and the root alone,
\* whatever the build before it left behind.
C12_NoSharedState ==
    /\ [][OrderLeavesBuildAlone]_vars
    /\ []((reg \in FiniteRegistries /\ result # <<>>) =>
            result[1] = LoadOrderRef(reg, params.package_name, params.version))

\* the load order is computed after a build that visited nodes and recorded
\* a re-entry
C12_Witness ==
    /\ reg = "cycle"
    /\ result = << <<keyA1, keyB1>> >>
    /\ visited = {<<pA, v1>>, <<pB, v1>>}
    /\ cycles = << <<pA, v1>> >>

\* --------------------------------------------------------------------- C13
\* C13: a configuration error ends the process with status 1 before any
\* fetch or traversal step, and nothing but a configuration error makes the
\* process end with status 1.
C13_OnlyConfigErrorsExit ==
    /\ ~ConfigValid =>
         /\ pc \in {"load_config", "exit1"}
         /\ fetchLog = <<>>
         /\ stack = <<>> /\ lo_stack = <<>>
         /\ builds = 0
    /\ pc = "exit1" => ~ConfigValid

\* --------------------------------------------------------------------- C14
\* the call at the top of the stack has an activation of the same node below
\* it: the node is an ancestor on the current call path
TopIsAncestor ==
    \E i \in 1..(Len(stack) - 1) :
        /\ stack[i].package = Top(stack).package
        /\ stack[i].version = Top(stack).version

\* an append to CycleList is made for a node on the current call path
CycleOnlyOnPath == cycles' # cycles => TopIsAncestor

\* C14: a node is appended to CycleList only while it is an ancestor on the
\* current call path, and on the diamond root -> B, root -> C, B -> D, C -> D
\* CycleList stays empty.
C14_CycleOnlyOnLineage ==
    /\ [][CycleOnlyOnPath]_vars
    /\ []((reg = "diamond" /\ built) => cycles = <<>>)

\* --------------------------------------------------------------------- C15
\* _bfs_with_recursion as a function of the fetcher, the root and the
\* parameters: the graph, visited set, cycle list and set of fetched nodes are
\* threaded through the calls; with rev each dependency list is taken in the
\* opposite order
RECURSIVE BfsRef(_, _, _, _, _, _)
RECURSIVE BfsRefLoop(_, _, _, _, _, _, _, _)
BfsRef(r, rev, st, package, version, current_depth) ==
    IF DepthExceeded(current_depth) THEN st
    ELSE IF <<package, version>> \in st.visited
    THEN [st EXCEPT !.cycles = Append(@, <<package, version>>)]
    ELSE LET marked == [st EXCEPT !.visited = @ \cup {<<package, version>>}]
             listed == FetchDependencies(r, package, version).deps
         IN  IF FilterMatches(package) THEN marked
             ELSE BfsRefLoop(r, rev,
                             [marked EXCEPT !.expanded = @ \cup {<<package, version>>}],
                             package, version, current_depth,
                             IF rev THEN Reverse(listed) ELSE listed, 1)

BfsRefLoop(r, rev, st, package, version, current_depth, deps, i) ==
    IF i > Len(deps) THEN st
    ELSE LET dep_name == deps[i].name
             dep_version == ExtractVersion(deps[i].version)
             appended == [st EXCEPT !.graph =
                              GraphAppend(@, NodeKey(package, version),
                                          NodeKey(dep_name, dep_version))]
         IN  BfsRefLoop(r, rev,
                        BfsRef(r, rev, appended, dep_name, dep_version,
                               ChildDepth(current_depth)),
                        package, version, current_depth, deps, i + 1)

BuildRef(r, rev) ==
    BfsRef(r, rev, [graph |-> <<>>, visited |-> {}, cycles |-> <<>>, expanded |-> {}],
           params.package_name, params.version, 0)

\* registries in which no fetch raises
QuietRegistries == Registries \ {"schema_id", "schema_req", "schema_obj"}

\* the function agrees with the step-by-step builder
BuildRefAgrees ==
    (built /\ reg \in QuietRegistries) =>
        /\ graph = BuildRef(reg, FALSE).graph
        /\ visited = BuildRef(reg, FALSE).visited
        /\ cycles = BuildRef(reg, FALSE).cycles

EdgeSet(g) == UNION {{<<k, g[k][i]>> : i \in 1..Len(g[k])} : k \in DOMAIN g}

ExpandedByBuild ==
    {<<fetchLog[i].package, fetchLog[i].version>> : i \in BuildFetchIdx}

\* C15: with the root, max_depth and filter fixed, listing every node's
\* dependencies in another order (here: the opposite order) leaves the set of
\* edges of the final Graph and the set of expanded nodes unchanged.
C15_OrderInsensitive ==
    (built /\ reg \in QuietRegistries) =>
        /\ EdgeSet(graph) = EdgeSet(BuildRef(reg, TRUE).graph)
        /\ ExpandedByBuild = BuildRef(reg, TRUE).expanded

\* --------------------------------------------------------------------- C16
\* no node is fetched twice by the load order traversal
OrderFetchesOnce ==
    \A i \in OrderFetchIdx : \A j \in OrderFetchIdx :
        (fetchLog[j].package = fetchLog[i].package
           /\ fetchLog[j].version = fetchLog[i].version) => j = i

\* C16: on a registry with finitely many reachable nodes the load order
\* traversal ends, it fetches no node twice and has fetched every reachable
\* node when it returns, and the whole run (build, then load order) ends.
C16_OrderTerminates ==
    /\ [](OrderFetchesOnce)
    /\ []((reg \in FiniteRegistries /\ result # <<>>) =>
            {NodeKey(fetchLog[i].package, fetchLog[i].version) : i \in OrderFetchIdx}
                = ReachableKeys)
    /\ (reg \in FiniteRegistries /\ pc = "analyze") ~> (pc \in {"visualize", "exit1"})
    /\ (reg \in FiniteRegistries) ~> (pc \in {"done", "exit1"})

\* a run on the cyclic registry, cut at depth 0 by the builder, ran to its end
C16_Witness ==
    /\ reg = "cycle"
    /\ pc = "done"
    /\ params.max_depth = 0
    /\ Cardinality(OrderFetchIdx) = 2
    /\ Cardinality(BuildFetchIdx) = 1

\* --------------------------------------------------------------------- C17
\* C17: in every state each entry of CycleList is in VisitedSet and is the
\* target of an edge of the Graph, and every source key of the Graph is the
\* key of a node in VisitedSet.
C17_CyclesVisitedAndTargets ==
    /\ \A i \in 1..Len(cycles) :
         /\ cycles[i] \in visited
         /\ \E k \in DOMAIN graph : NodeKey(cycles[i][1], cycles[i][2]) \in Elems(graph[k])
    /\ \A k \in DOMAIN graph : \E n \in visited : NodeKey(n[1], n[2]) = k

\* the builder is in the middle of the diamond and has recorded a re-entry
C17_Witness ==
    /\ reg = "diamond"
    /\ pc = "building"
    /\ stack # <<>>
    /\ cycles = << <<pD, v1>> >>
    /\ HasEdge(NodeKey(pC, v1), NodeKey(pD, v1))

\* --------------------------------------------------------------------- C18
\* C18: Graph, VisitedSet and CycleList are fresh for each build: after a
\* second build_dependency_graph on the same object the Graph and the
\* CycleList are what they were after the first.
C18_SecondBuildSame ==
    (builds = 2 /\ pc = "analyze" /\ first # <<>>) =>
        /\ graph = first[1].graph
        /\ cycles = first[1].cycles

\* --------------------------------------------------------------------- C19
\* C19: the returned sequence is the reverse of the list dfs built, its first
\* element is the root, and on an acyclic registry every node p comes before
\* every node c of an edge p -> c the traversal discovered.
C19_DependentsFirst ==
    result # <<>> =>
        LET ord == result[1] IN
        /\ ord = Reverse(load_order)
        /\ ord[1] = RootKey
        /\ reg \in AcyclicRegistries =>
             \A i \in OrderFetchIdx :
                LET p == NodeKey(fetchLog[i].package, fetchLog[i].version)
                    cs == ListedKeys(fetchLog[i].package, fetchLog[i].version)
                IN  \A j \in 1..Len(cs) : PosIn(ord, p) < PosIn(ord, cs[j])

C19_Witness ==
    /\ reg = "diamond"
    /\ result = << <<NodeKey(root, v1), NodeKey(pC, v1),
                     NodeKey(pB, v1), NodeKey(pD, v1)>> >>

====
